---------------------------- MODULE Spec2Model ----------------------------
(***************************************************************************)
(* A model of the CORS middleware of package cors (cors.go): the policy    *)
(* compiler New, the negotiation engine (handlePreflight,                  *)
(* handleActualRequest and the origin/method/header checks) and the three  *)
(* handler adapters Handler, HandlerFunc and ServeHTTP.                    *)
(*                                                                         *)
(* A Go string is the sequence of its bytes, each byte a one-character     *)
(* string: an ASCII byte is its character, a byte of 0x80 or more is the   *)
(* character with that code point (U+0080 to U+00FF), and the byte 0x60,   *)
(* which no string literal can hold, is the value Backquote. A character   *)
(* outside ASCII is therefore its UTF-8 bytes: U+00C9 is the two bytes     *)
(* 0xC3 0x89. Case conversion, canonicalisation, splitting and joining are *)
(* computed byte by byte as the library functions compute them.            *)
(* An http.Header is a function from header names to the sequence of       *)
(* values stored under that name; the empty sequence is an absent header.  *)
(* The debug logger (Options.Debug, Cors.log, logf) only prints trace      *)
(* lines and is left out.                                                  *)
(***************************************************************************)
EXTENDS Integers, Sequences, FiniteSets, TLC

\* ------------------------------------------------------------------
\* Strings
\* ------------------------------------------------------------------

LowerLetters ==
    <<"a", "b", "c", "d", "e", "f", "g", "h", "i", "j", "k", "l", "m",
      "n", "o", "p", "q", "r", "s", "t", "u", "v", "w", "x", "y", "z">>

UpperLetters ==
    <<"A", "B", "C", "D", "E", "F", "G", "H", "I", "J", "K", "L", "M",
      "N", "O", "P", "Q", "R", "S", "T", "U", "V", "W", "X", "Y", "Z">>

Digits == <<"0", "1", "2", "3", "4", "5", "6", "7", "8", "9">>

Range(s) == {s[i] : i \in DOMAIN s}

\* the byte 0x60
Backquote == "backquote"

\* the bytes 0x80 to 0xFF in order
HighBytes ==
    <<"", "", "", "", "", "", "", "", "", "", "", "", "", "", "", "",
      "", "", "", "", "", "", "", "", "", "", "", "", "", "", "", "",
      " ", "¡", "¢", "£", "¤", "¥", "¦", "§", "¨", "©", "ª", "«", "¬", "­", "®", "¯",
      "°", "±", "²", "³", "´", "µ", "¶", "·", "¸", "¹", "º", "»", "¼", "½", "¾", "¿",
      "À", "Á", "Â", "Ã", "Ä", "Å", "Æ", "Ç", "È", "É", "Ê", "Ë", "Ì", "Í", "Î", "Ï",
      "Ð", "Ñ", "Ò", "Ó", "Ô", "Õ", "Ö", "×", "Ø", "Ù", "Ú", "Û", "Ü", "Ý", "Þ", "ß",
      "à", "á", "â", "ã", "ä", "å", "æ", "ç", "è", "é", "ê", "ë", "ì", "í", "î", "ï",
      "ð", "ñ", "ò", "ó", "ô", "õ", "ö", "÷", "ø", "ù", "ú", "û", "ü", "ý", "þ", "ÿ">>

\* the function that takes each element of the sequence from, which holds
\* no element twice, to the element of to at the same place
Pairing(from, to) ==
    [ch \in Range(from) |-> to[CHOOSE i \in DOMAIN from : from[i] = ch]]

\* each ASCII letter with its other case form
LowerForm == Pairing(UpperLetters, LowerLetters)

UpperForm == Pairing(LowerLetters, UpperLetters)

\* the byte ch in the case form the table form gives it, ch if it gives none
FormOf(form, ch) == IF ch \in DOMAIN form THEN form[ch] ELSE ch

IsLower(ch) == ch \in DOMAIN UpperForm

IsUpper(ch) == ch \in DOMAIN LowerForm

\* an ASCII byte lower-cased
LowerOf(ch) == FormOf(LowerForm, ch)

\* an ASCII byte upper-cased
UpperOf(ch) == FormOf(UpperForm, ch)

\* the value of each byte of 0x80 or more
HighValue == Pairing(HighBytes, [k \in DOMAIN HighBytes |-> 127 + k])

\* c < utf8.RuneSelf; val is HighValue
IsASCII(val, ch) == ch \notin DOMAIN val

\* the value of a byte of 0x80 or more; an ASCII byte, whose value no
\* definition needs, counts as 0
ByteValue(val, ch) == IF IsASCII(val, ch) THEN 0 ELSE val[ch]

\* the byte of value v, 0x80 or more
HighByte(val, v) == CHOOSE ch \in DOMAIN val : val[ch] = v

\* the rune and the width of the encoding whose bytes have the values
\* b[0] to b[3], 0 standing for an ASCII byte or the end of the string; a
\* first byte that starts no well-formed encoding is rune -1 of width 1
DecodeBytes(b) ==
    IF b[0] >= 194 /\ b[0] <= 223 /\ b[1] >= 128 /\ b[1] <= 191
    THEN [rune |-> (b[0] - 192) * 64 + (b[1] - 128), width |-> 2]
    ELSE IF /\ b[0] >= 224 /\ b[0] <= 239
            /\ b[1] >= (IF b[0] = 224 THEN 160 ELSE 128)
            /\ b[1] <= (IF b[0] = 237 THEN 159 ELSE 191)
            /\ b[2] >= 128 /\ b[2] <= 191
    THEN [rune |-> (b[0] - 224) * 4096 + (b[1] - 128) * 64 + (b[2] - 128),
          width |-> 3]
    ELSE IF /\ b[0] >= 240 /\ b[0] <= 244
            /\ b[1] >= (IF b[0] = 240 THEN 144 ELSE 128)
            /\ b[1] <= (IF b[0] = 244 THEN 143 ELSE 191)
            /\ b[2] >= 128 /\ b[2] <= 191
            /\ b[3] >= 128 /\ b[3] <= 191
    THEN [rune |-> (b[0] - 240) * 262144 + (b[1] - 128) * 4096
                      + (b[2] - 128) * 64 + (b[3] - 128),
          width |-> 4]
    ELSE [rune |-> -1, width |-> 1]

\* utf8.DecodeRuneInString at the high byte s[i]
DecodeRune(val, s, i) ==
    DecodeBytes([k \in 0..3 |->
                    IF i + k <= Len(s) THEN ByteValue(val, s[i + k]) ELSE 0])

\* the upper-case forms of unicode.ToUpper outside ASCII, each entry
\* <<first, last, step, delta>>: the runes first, first + step, ..., last
\* have the upper-case form rune + delta (Unicode 13.0, the tables of Go
\* 1.16 to 1.20)
UpperRanges ==
    <<<<181, 181, 1, 743>>, <<224, 246, 1, -32>>, <<248, 254, 1, -32>>,
      <<255, 255, 1, 121>>, <<257, 303, 2, -1>>, <<305, 305, 1, -232>>,
      <<307, 311, 2, -1>>, <<314, 328, 2, -1>>, <<331, 375, 2, -1>>,
      <<378, 382, 2, -1>>, <<383, 383, 1, -300>>, <<384, 384, 1, 195>>,
      <<387, 389, 2, -1>>, <<392, 392, 1, -1>>, <<396, 396, 1, -1>>,
      <<402, 402, 1, -1>>, <<405, 405, 1, 97>>, <<409, 409, 1, -1>>,
      <<410, 410, 1, 163>>, <<414, 414, 1, 130>>, <<417, 421, 2, -1>>,
      <<424, 424, 1, -1>>, <<429, 429, 1, -1>>, <<432, 432, 1, -1>>,
      <<436, 438, 2, -1>>, <<441, 441, 1, -1>>, <<445, 445, 1, -1>>,
      <<447, 447, 1, 56>>, <<453, 453, 1, -1>>, <<454, 454, 1, -2>>,
      <<456, 456, 1, -1>>, <<457, 457, 1, -2>>, <<459, 459, 1, -1>>,
      <<460, 460, 1, -2>>, <<462, 476, 2, -1>>, <<477, 477, 1, -79>>,
      <<479, 495, 2, -1>>, <<498, 498, 1, -1>>, <<499, 499, 1, -2>>,
      <<501, 501, 1, -1>>, <<505, 543, 2, -1>>, <<547, 563, 2, -1>>,
      <<572, 572, 1, -1>>, <<575, 576, 1, 10815>>, <<578, 578, 1, -1>>,
      <<583, 591, 2, -1>>, <<592, 592, 1, 10783>>, <<593, 593, 1, 10780>>,
      <<594, 594, 1, 10782>>, <<595, 595, 1, -210>>, <<596, 596, 1, -206>>,
      <<598, 599, 1, -205>>, <<601, 601, 1, -202>>, <<603, 603, 1, -203>>,
      <<604, 604, 1, 42319>>, <<608, 608, 1, -205>>, <<609, 609, 1, 42315>>,
      <<611, 611, 1, -207>>, <<613, 613, 1, 42280>>, <<614, 614, 1, 42308>>,
      <<616, 616, 1, -209>>, <<617, 617, 1, -211>>, <<618, 618, 1, 42308>>,
      <<619, 619, 1, 10743>>, <<620, 620, 1, 42305>>, <<623, 623, 1, -211>>,
      <<625, 625, 1, 10749>>, <<626, 626, 1, -213>>, <<629, 629, 1, -214>>,
      <<637, 637, 1, 10727>>, <<640, 640, 1, -218>>, <<642, 642, 1, 42307>>,
      <<643, 643, 1, -218>>, <<647, 647, 1, 42282>>, <<648, 648, 1, -218>>,
      <<649, 649, 1, -69>>, <<650, 651, 1, -217>>, <<652, 652, 1, -71>>,
      <<658, 658, 1, -219>>, <<669, 669, 1, 42261>>, <<670, 670, 1, 42258>>,
      <<837, 837, 1, 84>>, <<881, 883, 2, -1>>, <<887, 887, 1, -1>>,
      <<891, 893, 1, 130>>, <<940, 940, 1, -38>>, <<941, 943, 1, -37>>,
      <<945, 961, 1, -32>>, <<962, 962, 1, -31>>, <<963, 971, 1, -32>>,
      <<972, 972, 1, -64>>, <<973, 974, 1, -63>>, <<976, 976, 1, -62>>,
      <<977, 977, 1, -57>>, <<981, 981, 1, -47>>, <<982, 982, 1, -54>>,
      <<983, 983, 1, -8>>, <<985, 1007, 2, -1>>, <<1008, 1008, 1, -86>>,
      <<1009, 1009, 1, -80>>, <<1010, 1010, 1, 7>>, <<1011, 1011, 1, -116>>,
      <<1013, 1013, 1, -96>>, <<1016, 1016, 1, -1>>, <<1019, 1019, 1, -1>>,
      <<1072, 1103, 1, -32>>, <<1104, 1119, 1, -80>>, <<1121, 1153, 2, -1>>,
      <<1163, 1215, 2, -1>>, <<1218, 1230, 2, -1>>, <<1231, 1231, 1, -15>>,
      <<1233, 1327, 2, -1>>, <<1377, 1414, 1, -48>>, <<4304, 4346, 1, 3008>>,
      <<4349, 4351, 1, 3008>>, <<5112, 5117, 1, -8>>, <<7296, 7296, 1, -6254>>,
      <<7297, 7297, 1, -6253>>, <<7298, 7298, 1, -6244>>, <<7299, 7300, 1, -6242>>,
      <<7301, 7301, 1, -6243>>, <<7302, 7302, 1, -6236>>, <<7303, 7303, 1, -6181>>,
      <<7304, 7304, 1, 35266>>, <<7545, 7545, 1, 35332>>, <<7549, 7549, 1, 3814>>,
      <<7566, 7566, 1, 35384>>, <<7681, 7829, 2, -1>>, <<7835, 7835, 1, -59>>,
      <<7841, 7935, 2, -1>>, <<7936, 7943, 1, 8>>, <<7952, 7957, 1, 8>>,
      <<7968, 7975, 1, 8>>, <<7984, 7991, 1, 8>>, <<8000, 8005, 1, 8>>,
      <<8017, 8023, 2, 8>>, <<8032, 8039, 1, 8>>, <<8048, 8049, 1, 74>>,
      <<8050, 8053, 1, 86>>, <<8054, 8055, 1, 100>>, <<8056, 8057, 1, 128>>,
      <<8058, 8059, 1, 112>>, <<8060, 8061, 1, 126>>, <<8064, 8071, 1, 8>>,
      <<8080, 8087, 1, 8>>, <<8096, 8103, 1, 8>>, <<8112, 8113, 1, 8>>,
      <<8115, 8115, 1, 9>>, <<8126, 8126, 1, -7205>>, <<8131, 8131, 1, 9>>,
      <<8144, 8145, 1, 8>>, <<8160, 8161, 1, 8>>, <<8165, 8165, 1, 7>>,
      <<8179, 8179, 1, 9>>, <<8526, 8526, 1, -28>>, <<8560, 8575, 1, -16>>,
      <<8580, 8580, 1, -1>>, <<9424, 9449, 1, -26>>, <<11312, 11358, 1, -48>>,
      <<11361, 11361, 1, -1>>, <<11365, 11365, 1, -10795>>, <<11366, 11366, 1, -10792>>,
      <<11368, 11372, 2, -1>>, <<11379, 11379, 1, -1>>, <<11382, 11382, 1, -1>>,
      <<11393, 11491, 2, -1>>, <<11500, 11502, 2, -1>>, <<11507, 11507, 1, -1>>,
      <<11520, 11557, 1, -7264>>, <<11559, 11559, 1, -7264>>, <<11565, 11565, 1, -7264>>,
      <<42561, 42605, 2, -1>>, <<42625, 42651, 2, -1>>, <<42787, 42799, 2, -1>>,
      <<42803, 42863, 2, -1>>, <<42874, 42876, 2, -1>>, <<42879, 42887, 2, -1>>,
      <<42892, 42892, 1, -1>>, <<42897, 42899, 2, -1>>, <<42900, 42900, 1, 48>>,
      <<42903, 42921, 2, -1>>, <<42933, 42943, 2, -1>>, <<42947, 42947, 1, -1>>,
      <<42952, 42954, 2, -1>>, <<42998, 42998, 1, -1>>, <<43859, 43859, 1, -928>>,
      <<43888, 43967, 1, -38864>>, <<65345, 65370, 1, -32>>, <<66600, 66639, 1, -40>>,
      <<66776, 66811, 1, -40>>, <<68800, 68850, 1, -64>>, <<71872, 71903, 1, -32>>,
      <<93792, 93823, 1, -32>>, <<125218, 125251, 1, -34>>>>

\* the lower-case forms of unicode.ToLower outside ASCII, in the same form
LowerRanges ==
    <<<<192, 214, 1, 32>>, <<216, 222, 1, 32>>, <<256, 302, 2, 1>>,
      <<304, 304, 1, -199>>, <<306, 310, 2, 1>>, <<313, 327, 2, 1>>,
      <<330, 374, 2, 1>>, <<376, 376, 1, -121>>, <<377, 381, 2, 1>>,
      <<385, 385, 1, 210>>, <<386, 388, 2, 1>>, <<390, 390, 1, 206>>,
      <<391, 391, 1, 1>>, <<393, 394, 1, 205>>, <<395, 395, 1, 1>>,
      <<398, 398, 1, 79>>, <<399, 399, 1, 202>>, <<400, 400, 1, 203>>,
      <<401, 401, 1, 1>>, <<403, 403, 1, 205>>, <<404, 404, 1, 207>>,
      <<406, 406, 1, 211>>, <<407, 407, 1, 209>>, <<408, 408, 1, 1>>,
      <<412, 412, 1, 211>>, <<413, 413, 1, 213>>, <<415, 415, 1, 214>>,
      <<416, 420, 2, 1>>, <<422, 422, 1, 218>>, <<423, 423, 1, 1>>,
      <<425, 425, 1, 218>>, <<428, 428, 1, 1>>, <<430, 430, 1, 218>>,
      <<431, 431, 1, 1>>, <<433, 434, 1, 217>>, <<435, 437, 2, 1>>,
      <<439, 439, 1, 219>>, <<440, 440, 1, 1>>, <<444, 444, 1, 1>>,
      <<452, 452, 1, 2>>, <<453, 453, 1, 1>>, <<455, 455, 1, 2>>,
      <<456, 456, 1, 1>>, <<458, 458, 1, 2>>, <<459, 475, 2, 1>>,
      <<478, 494, 2, 1>>, <<497, 497, 1, 2>>, <<498, 500, 2, 1>>,
      <<502, 502, 1, -97>>, <<503, 503, 1, -56>>, <<504, 542, 2, 1>>,
      <<544, 544, 1, -130>>, <<546, 562, 2, 1>>, <<570, 570, 1, 10795>>,
      <<571, 571, 1, 1>>, <<573, 573, 1, -163>>, <<574, 574, 1, 10792>>,
      <<577, 577, 1, 1>>, <<579, 579, 1, -195>>, <<580, 580, 1, 69>>,
      <<581, 581, 1, 71>>, <<582, 590, 2, 1>>, <<880, 882, 2, 1>>,
      <<886, 886, 1, 1>>, <<895, 895, 1, 116>>, <<902, 902, 1, 38>>,
      <<904, 906, 1, 37>>, <<908, 908, 1, 64>>, <<910, 911, 1, 63>>,
      <<913, 929, 1, 32>>, <<931, 939, 1, 32>>, <<975, 975, 1, 8>>,
      <<984, 1006, 2, 1>>, <<1012, 1012, 1, -60>>, <<1015, 1015, 1, 1>>,
      <<1017, 1017, 1, -7>>, <<1018, 1018, 1, 1>>, <<1021, 1023, 1, -130>>,
      <<1024, 1039, 1, 80>>, <<1040, 1071, 1, 32>>, <<1120, 1152, 2, 1>>,
      <<1162, 1214, 2, 1>>, <<1216, 1216, 1, 15>>, <<1217, 1229, 2, 1>>,
      <<1232, 1326, 2, 1>>, <<1329, 1366, 1, 48>>, <<4256, 4293, 1, 7264>>,
      <<4295, 4295, 1, 7264>>, <<4301, 4301, 1, 7264>>, <<5024, 5103, 1, 38864>>,
      <<5104, 5109, 1, 8>>, <<7312, 7354, 1, -3008>>, <<7357, 7359, 1, -3008>>,
      <<7680, 7828, 2, 1>>, <<7838, 7838, 1, -7615>>, <<7840, 7934, 2, 1>>,
      <<7944, 7951, 1, -8>>, <<7960, 7965, 1, -8>>, <<7976, 7983, 1, -8>>,
      <<7992, 7999, 1, -8>>, <<8008, 8013, 1, -8>>, <<8025, 8031, 2, -8>>,
      <<8040, 8047, 1, -8>>, <<8072, 8079, 1, -8>>, <<8088, 8095, 1, -8>>,
      <<8104, 8111, 1, -8>>, <<8120, 8121, 1, -8>>, <<8122, 8123, 1, -74>>,
      <<8124, 8124, 1, -9>>, <<8136, 8139, 1, -86>>, <<8140, 8140, 1, -9>>,
      <<8152, 8153, 1, -8>>, <<8154, 8155, 1, -100>>, <<8168, 8169, 1, -8>>,
      <<8170, 8171, 1, -112>>, <<8172, 8172, 1, -7>>, <<8184, 8185, 1, -128>>,
      <<8186, 8187, 1, -126>>, <<8188, 8188, 1, -9>>, <<8486, 8486, 1, -7517>>,
      <<8490, 8490, 1, -8383>>, <<8491, 8491, 1, -8262>>, <<8498, 8498, 1, 28>>,
      <<8544, 8559, 1, 16>>, <<8579, 8579, 1, 1>>, <<9398, 9423, 1, 26>>,
      <<11264, 11310, 1, 48>>, <<11360, 11360, 1, 1>>, <<11362, 11362, 1, -10743>>,
      <<11363, 11363, 1, -3814>>, <<11364, 11364, 1, -10727>>, <<11367, 11371, 2, 1>>,
      <<11373, 11373, 1, -10780>>, <<11374, 11374, 1, -10749>>, <<11375, 11375, 1, -10783>>,
      <<11376, 11376, 1, -10782>>, <<11378, 11378, 1, 1>>, <<11381, 11381, 1, 1>>,
      <<11390, 11391, 1, -10815>>, <<11392, 11490, 2, 1>>, <<11499, 11501, 2, 1>>,
      <<11506, 11506, 1, 1>>, <<42560, 42604, 2, 1>>, <<42624, 42650, 2, 1>>,
      <<42786, 42798, 2, 1>>, <<42802, 42862, 2, 1>>, <<42873, 42875, 2, 1>>,
      <<42877, 42877, 1, -35332>>, <<42878, 42886, 2, 1>>, <<42891, 42891, 1, 1>>,
      <<42893, 42893, 1, -42280>>, <<42896, 42898, 2, 1>>, <<42902, 42920, 2, 1>>,
      <<42922, 42922, 1, -42308>>, <<42923, 42923, 1, -42319>>, <<42924, 42924, 1, -42315>>,
      <<42925, 42925, 1, -42305>>, <<42926, 42926, 1, -42308>>, <<42928, 42928, 1, -42258>>,
      <<42929, 42929, 1, -42282>>, <<42930, 42930, 1, -42261>>, <<42931, 42931, 1, 928>>,
      <<42932, 42942, 2, 1>>, <<42946, 42946, 1, 1>>, <<42948, 42948, 1, -48>>,
      <<42949, 42949, 1, -42307>>, <<42950, 42950, 1, -35384>>, <<42951, 42953, 2, 1>>,
      <<42997, 42997, 1, 1>>, <<65313, 65338, 1, 32>>, <<66560, 66599, 1, 40>>,
      <<66736, 66771, 1, 40>>, <<68736, 68786, 1, 64>>, <<71840, 71871, 1, 32>>,
      <<93760, 93791, 1, 32>>, <<125184, 125217, 1, 34>>>>

\* the place in ranges of the entry that holds the rune r, 0 if none does
RangeOf(ranges, r) ==
    IF \E i \in DOMAIN ranges :
           /\ r >= ranges[i][1]
           /\ r <= ranges[i][2]
           /\ (r - ranges[i][1]) % ranges[i][3] = 0
    THEN CHOOSE i \in DOMAIN ranges :
           /\ r >= ranges[i][1]
           /\ r <= ranges[i][2]
           /\ (r - ranges[i][1]) % ranges[i][3] = 0
    ELSE 0

\* the rune r moved by entry i of ranges, unmoved if i is 0
Moved(ranges, r, i) == IF i = 0 THEN r ELSE r + ranges[i][4]

\* unicode.ToUpper and unicode.ToLower of a rune outside ASCII: the rune r
\* moved by the entry of ranges, UpperRanges or LowerRanges, that holds it
CaseForm(ranges, r) == Moved(ranges, r, RangeOf(ranges, r))

\* the bytes of the values v: the ASCII letter of one value below 0x80, else
\* bytes of 0x80 or more
BytesOf(val, v) ==
    [k \in DOMAIN v |->
        IF v[k] >= 65 /\ v[k] <= 90 THEN UpperLetters[v[k] - 64]
        ELSE IF v[k] >= 97 /\ v[k] <= 122 THEN LowerLetters[v[k] - 96]
        ELSE HighByte(val, v[k])]

\* utf8.EncodeRune for a case form: an ASCII letter, or two to four bytes
\* of 0x80 or more
EncodeRune(val, r) ==
    BytesOf(val,
            IF r < 128 THEN <<r>>
            ELSE IF r < 2048
            THEN <<192 + (r \div 64), 128 + (r % 64)>>
            ELSE IF r < 65536
            THEN <<224 + (r \div 4096), 128 + ((r \div 64) % 64),
                   128 + (r % 64)>>
            ELSE <<240 + (r \div 262144), 128 + ((r \div 4096) % 64),
                   128 + ((r \div 64) % 64), 128 + (r % 64)>>)

\* utf8.RuneError, U+FFFD
RuneError == 65533

\* what strings.Map writes for the rune d that utf8.DecodeRuneInString
\* found at s[i] and whose case form is m: utf8.RuneError for a byte that
\* starts no well-formed encoding, else the encoding of m
MappedRune(s, i, d, m, val) ==
    IF d.rune = -1 THEN EncodeRune(val, RuneError)
    ELSE IF m = d.rune THEN SubSeq(s, i, i + d.width - 1)
    ELSE EncodeRune(val, m)

\* the width of the rune at s[i]
WidthAt(val, s, i) ==
    IF IsASCII(val, s[i]) THEN 1 ELSE DecodeRune(val, s, i).width

\* the case form strings.Map writes for the rune at s[i]
MappedAt(s, i, ascii, ranges, val, d) ==
    IF IsASCII(val, s[i]) THEN <<FormOf(ascii, s[i])>>
    ELSE MappedRune(s, i, d, CaseForm(ranges, d.rune), val)

\* strings.Map(unicode.ToUpper, s) and strings.Map(unicode.ToLower, s) from
\* byte i on: each rune is replaced by its case form
RECURSIVE MapCase(_, _, _, _, _)
MapCase(s, i, ascii, ranges, val) ==
    IF i > Len(s) THEN <<>>
    ELSE MappedAt(s, i, ascii, ranges, val, DecodeRune(val, s, i))
         \o MapCase(s, i + WidthAt(val, s, i), ascii, ranges, val)

\* strings.ToLower and strings.ToUpper: byte by byte for an ASCII string,
\* else rune by rune; ascii holds the case forms of the ASCII letters,
\* ranges those of the other runes and val the values of the high bytes
ToCase(s, ascii, ranges, val) ==
    IF \A i \in DOMAIN s : IsASCII(val, s[i])
    THEN [i \in DOMAIN s |-> FormOf(ascii, s[i])]
    ELSE MapCase(s, 1, ascii, ranges, val)

\* strings.ToLower
ToLower(s) == ToCase(s, LowerForm, LowerRanges, HighValue)

\* strings.ToUpper
ToUpper(s) == ToCase(s, UpperForm, UpperRanges, HighValue)

\* strings.IndexByte: the index (from 0) of the first ch in s, or -1
IndexByte(s, ch) ==
    IF \E i \in DOMAIN s : s[i] = ch
    THEN (CHOOSE i \in DOMAIN s : s[i] = ch /\ \A j \in 1..(i - 1) : s[j] # ch) - 1
    ELSE -1

\* strings.HasPrefix
HasPrefix(s, prefix) ==
    Len(s) >= Len(prefix) /\ SubSeq(s, 1, Len(prefix)) = prefix

\* strings.HasSuffix
HasSuffix(s, suffix) ==
    Len(s) >= Len(suffix) /\ SubSeq(s, Len(s) - Len(suffix) + 1, Len(s)) = suffix

\* strings.Join
RECURSIVE Join(_, _)
Join(elems, sep) ==
    IF Len(elems) = 0 THEN <<>>
    ELSE IF Len(elems) = 1 THEN elems[1]
    ELSE elems[1] \o sep \o Join(Tail(elems), sep)

\* strconv.Itoa
RECURSIVE ItoaNat(_)
ItoaNat(n) ==
    IF n < 10 THEN <<Digits[n + 1]>>
    ELSE ItoaNat(n \div 10) \o <<Digits[(n % 10) + 1]>>

Itoa(n) == IF n < 0 THEN <<"-">> \o ItoaNat(0 - n) ELSE ItoaNat(n)

\* net/textproto validHeaderFieldByte: the bytes of an RFC 7230 token
IsTokenByte(ch) ==
    \/ IsLower(ch)
    \/ IsUpper(ch)
    \/ ch \in Range(Digits)
    \/ ch \in {"!", "#", "$", "%", "&", "'", "*", "+", "-", ".", "^", "_",
              Backquote, "|", "~"}

\* http.CanonicalHeaderKey: a name holding a byte that is no token byte is
\* returned unchanged; otherwise the first letter and every letter after
\* a hyphen are upper-cased and all other letters lower-cased, ASCII
\* letters being the only letters among the token bytes.
CanonicalHeaderKey(s) ==
    IF \E i \in DOMAIN s : ~IsTokenByte(s[i])
    THEN s
    ELSE [i \in DOMAIN s |->
            IF i = 1 \/ s[i - 1] = "-" THEN UpperOf(s[i]) ELSE LowerOf(s[i])]

\* ------------------------------------------------------------------
\* String constants
\* ------------------------------------------------------------------

sEmpty == <<>>
sStar == <<"*">>
sTrue == <<"t", "r", "u", "e">>
sHello == <<"h", "e", "l", "l", "o">>
sOrigin == <<"O", "r", "i", "g", "i", "n">>
sAccept == <<"A", "c", "c", "e", "p", "t">>
sContentType == <<"C", "o", "n", "t", "e", "n", "t", "-", "T", "y", "p", "e">>
sXRequestedWith == <<"X", "-", "R", "e", "q", "u", "e", "s", "t", "e", "d", "-", "W", "i", "t", "h">>
sACRequestMethod == <<"A", "c", "c", "e", "s", "s", "-", "C", "o", "n", "t", "r", "o", "l", "-", "R", "e", "q", "u", "e", "s", "t", "-", "M", "e", "t", "h", "o", "d">>
sACRequestHeaders == <<"A", "c", "c", "e", "s", "s", "-", "C", "o", "n", "t", "r", "o", "l", "-", "R", "e", "q", "u", "e", "s", "t", "-", "H", "e", "a", "d", "e", "r", "s">>
sCommaSpace == <<",", " ">>
MethodOptions == <<"O", "P", "T", "I", "O", "N", "S">>
sGET == <<"G", "E", "T">>
sPOST == <<"P", "O", "S", "T">>
sHEAD == <<"H", "E", "A", "D">>
sPUT == <<"P", "U", "T">>
sPut == <<"p", "u", "t">>
sDELETE == <<"D", "E", "L", "E", "T", "E">>
sPATCH == <<"P", "A", "T", "C", "H">>
sGetLower == <<"g", "e", "t">>
sOptionsLower == <<"o", "p", "t", "i", "o", "n", "s">>
\* "option" and U+017F, the long s, whose upper-case form is S
sOptionLongS == <<"o", "p", "t", "i", "o", "n", "Å", "¿">>
oFooMixed == <<"h", "t", "t", "p", ":", "/", "/", "F", "o", "o", ".", "c", "o", "m">>
oFoo == <<"h", "t", "t", "p", ":", "/", "/", "f", "o", "o", ".", "c", "o", "m">>
oFooUpper == <<"H", "T", "T", "P", ":", "/", "/", "F", "O", "O", ".", "C", "O", "M">>
oWildBar == <<"h", "t", "t", "p", ":", "/", "/", "*", ".", "B", "a", "r", ".", "c", "o", "m">>
oXBar == <<"h", "t", "t", "p", ":", "/", "/", "x", ".", "b", "a", "r", ".", "c", "o", "m">>
oEvil == <<"h", "t", "t", "p", ":", "/", "/", "e", "v", "i", "l", ".", "o", "r", "g">>
oFooBar == <<"h", "t", "t", "p", ":", "/", "/", "f", "o", "o", "b", "a", "r", ".", "c", "o", "m">>
oFooPrefix == <<"h", "t", "t", "p", ":", "/", "/", "f", "o", "o">>
hXH1 == <<"X", "-", "H", "1">>
hXh2Lower == <<"x", "-", "h", "2">>
hReqOne == <<"x", "-", "h", "1">>
hReqTwo == <<"X", "-", "H", "2", ",", " ", "X", "-", "H", "1">>
hReqBad == <<"X", "-", "H", "3", ",", " ", "X", "-", "H", "1">>
hReqBlank == <<",", " ">>
hReqDup == <<"x", "-", "h", "1", ",", "X", "-", "H", "1">>
hReqOrigin == <<"o", "r", "i", "g", "i", "n">>
oWildShort == <<"h", "t", "t", "p", ":", "/", "/", "f", "o", "o", ".", "c", "o", "m", "*", ".", "c", "o", "m">>
oWildTwo == <<"h", "t", "t", "p", ":", "/", "/", "*", ".", "b", "a", "r", ".", "*">>
oFooBarCom == <<"h", "t", "t", "p", ":", "/", "/", "f", "o", "o", ".", "b", "a", "r", ".", "c", "o", "m">>
\* "http://" U+00C9 ".com" and "http://" U+00E9 ".com": E acute, upper and lower
oEAcuteUpper == <<"h", "t", "t", "p", ":", "/", "/", "Ã", "", ".", "c", "o", "m">>
oEAcuteLower == <<"h", "t", "t", "p", ":", "/", "/", "Ã", "©", ".", "c", "o", "m">>
oFooBazCom == <<"h", "t", "t", "p", ":", "/", "/", "f", "o", "o", ".", "b", "a", "z", ".", "c", "o", "m">>
sExposedJoined == <<"X", "-", "H", "1", ",", " ", "X", "-", "H", "2">>
sTen == <<"1", "0">>

\* http.StatusOK
StatusOK == 200

\* ------------------------------------------------------------------
\* utils: wildcard, convert, parseHeaderList
\* ------------------------------------------------------------------

\* wildcard.match: s is long enough to hold prefix and suffix side by side,
\* starts with prefix and ends with suffix
match(w, s) ==
    /\ Len(s) >= Len(w.prefix) + Len(w.suffix)
    /\ HasPrefix(s, w.prefix)
    /\ HasSuffix(s, w.suffix)

\* convert with each transform the compiler passes to it
convertCanonical(list) == [i \in DOMAIN list |-> CanonicalHeaderKey(list[i])]

convertUpper(list) == [i \in DOMAIN list |-> ToUpper(list[i])]

IsSpace(ch) == ch \in {" ", "\t", "\n", "\r"}

RECURSIVE TrimLeft(_)
TrimLeft(s) ==
    IF Len(s) > 0 /\ IsSpace(s[1]) THEN TrimLeft(Tail(s)) ELSE s

RECURSIVE TrimRight(_)
TrimRight(s) ==
    IF Len(s) > 0 /\ IsSpace(s[Len(s)])
    THEN TrimRight(SubSeq(s, 1, Len(s) - 1))
    ELSE s

TrimSpace(s) == TrimRight(TrimLeft(s))

\* the tokens between the commas of s, in order
RECURSIVE SplitComma(_)
SplitComma(s) ==
    LET i == IndexByte(s, ",")
    IN  IF i < 0 THEN <<s>>
        ELSE <<SubSeq(s, 1, i)>> \o SplitComma(SubSeq(s, i + 2, Len(s)))

\* the trimmed, non-empty, canonicalised tokens, first occurrences only
RECURSIVE collectHeaders(_, _)
collectHeaders(tokens, acc) ==
    IF Len(tokens) = 0 THEN acc
    ELSE LET t == TrimSpace(tokens[1])
             h == CanonicalHeaderKey(t)
         IN  IF Len(t) = 0 \/ h \in Range(acc)
             THEN collectHeaders(Tail(tokens), acc)
             ELSE collectHeaders(Tail(tokens), Append(acc, h))

parseHeaderList(headerList) == collectHeaders(SplitComma(headerList), <<>>)

\* ------------------------------------------------------------------
\* http.Header
\* ------------------------------------------------------------------

ResponseHeaderNames ==
    {"Vary",
     "Access-Control-Allow-Origin",
     "Access-Control-Allow-Methods",
     "Access-Control-Allow-Headers",
     "Access-Control-Allow-Credentials",
     "Access-Control-Max-Age",
     "Access-Control-Expose-Headers"}

RequestHeaderNames ==
    {"Origin", "Access-Control-Request-Method", "Access-Control-Request-Headers"}

\* the header set of a fresh httptest.ResponseRecorder
EmptyHeader == [k \in ResponseHeaderNames |-> <<>>]

\* Header.Add appends a value to those stored under key
Add(h, key, value) == [h EXCEPT ![key] = Append(@, value)]

\* Header.Set replaces the values stored under key by the one value
Set(h, key, value) == [h EXCEPT ![key] = <<value>>]

\* Header.Get: the first value stored under key, "" when there is none
Get(h, key) == IF Len(h[key]) = 0 THEN <<>> ELSE h[key][1]

\* ------------------------------------------------------------------
\* Options and the policy compiler
\* ------------------------------------------------------------------

\* Options.AllowOriginFunc is nil or a predicate on the origin: the one of
\* the tests, which admits the origins that start with "http://foo", letter
\* case respected.
NilFunc == "nil"

OriginFuncs == {NilFunc, "prefixFoo"}

allowOriginFunc(f, origin) == f = "prefixFoo" /\ HasPrefix(origin, oFooPrefix)

\* the loop of New splitting a wildcard entry at its last '*'
RECURSIVE compileOrigins_LastStar(_, _)
compileOrigins_LastStar(origins, acc) ==
    IF Len(origins) = 0 THEN acc
    ELSE LET origin == ToLower(origins[1])
             stars == {k \in 1..Len(origin) : origin[k] = "*"}
             i == IF stars = {} THEN -1
                  ELSE (CHOOSE k \in stars : \A j \in stars : j <= k) - 1
         IN  IF origin = sStar
             THEN [all |-> TRUE, exact |-> <<>>, wild |-> <<>>]
             ELSE IF i >= 0
             THEN compileOrigins_LastStar(Tail(origins),
                    [acc EXCEPT !.wild = Append(@,
                        [prefix |-> SubSeq(origin, 1, i),
                         suffix |-> SubSeq(origin, i + 2, Len(origin))])])
             ELSE compileOrigins_LastStar(Tail(origins),
                    [acc EXCEPT !.exact = Append(@, origin)])

\* the loop of New over Options.AllowedOrigins; acc holds allowedOriginsAll,
\* allowedOrigins and allowedWOrigins
RECURSIVE compileOrigins(_, _)
compileOrigins(origins, acc) ==
    IF Len(origins) = 0 THEN acc
    ELSE LET origin == ToLower(origins[1])
             i == IndexByte(origin, "*")
         IN  IF origin = sStar
             THEN [all |-> TRUE, exact |-> <<>>, wild |-> <<>>]
             ELSE IF i >= 0
             THEN compileOrigins(Tail(origins),
                    [acc EXCEPT !.wild = Append(@,
                        [prefix |-> SubSeq(origin, 1, i),
                         suffix |-> SubSeq(origin, i + 2, Len(origin))])])
             ELSE compileOrigins(Tail(origins),
                    [acc EXCEPT !.exact = Append(@, origin)])

DefaultAllowedHeaders == <<sOrigin, sAccept, sContentType, sXRequestedWith>>

DefaultAllowedMethods == <<sGET, sPOST, sHEAD>>

New(options) ==
    LET o == IF Len(options.AllowedOrigins) = 0
             THEN [all |-> options.AllowOriginFunc = NilFunc,
                   exact |-> <<>>, wild |-> <<>>]
             ELSE compileOrigins(options.AllowedOrigins,
                                 [all |-> FALSE, exact |-> <<>>, wild |-> <<>>])
        headersAll == \E i \in DOMAIN options.AllowedHeaders :
                          options.AllowedHeaders[i] = sStar
    IN  [exposedHeaders    |-> convertCanonical(options.ExposedHeaders),
         allowOriginFunc   |-> options.AllowOriginFunc,
         allowCredentials  |-> options.AllowCredentials,
         maxAge            |-> options.MaxAge,
         optionPassthrough |-> options.OptionsPassthrough,
         allowedOriginsAll |-> o.all,
         allowedOrigins    |-> o.exact,
         allowedWOrigins   |-> o.wild,
         allowedHeadersAll |-> headersAll,
         allowedHeaders    |->
             IF Len(options.AllowedHeaders) = 0 THEN DefaultAllowedHeaders
             ELSE IF headersAll THEN <<>>
             ELSE convertCanonical(Append(options.AllowedHeaders, sOrigin)),
         allowedMethods    |->
             IF Len(options.AllowedMethods) = 0 THEN DefaultAllowedMethods
             ELSE convertUpper(options.AllowedMethods)]

\* ------------------------------------------------------------------
\* The negotiation engine
\* ------------------------------------------------------------------

\* isOriginAllowed comparing the origin as received, not lower-cased
isOriginAllowed_NoLower(c, origin) ==
    IF c.allowOriginFunc # NilFunc THEN allowOriginFunc(c.allowOriginFunc, origin)
    ELSE IF c.allowedOriginsAll THEN TRUE
    ELSE \/ \E i \in DOMAIN c.allowedOrigins : c.allowedOrigins[i] = origin
         \/ \E i \in DOMAIN c.allowedWOrigins : match(c.allowedWOrigins[i], origin)

isOriginAllowed(c, origin) ==
    IF c.allowOriginFunc # NilFunc THEN allowOriginFunc(c.allowOriginFunc, origin)
    ELSE IF c.allowedOriginsAll THEN TRUE
    ELSE LET lower == ToLower(origin)
         IN  \/ \E i \in DOMAIN c.allowedOrigins : c.allowedOrigins[i] = lower
             \/ \E i \in DOMAIN c.allowedWOrigins : match(c.allowedWOrigins[i], lower)

\* isMethodAllowed without the standing admission of OPTIONS
isMethodAllowed_NoOptions(c, method) ==
    IF Len(c.allowedMethods) = 0 THEN FALSE
    ELSE \E i \in DOMAIN c.allowedMethods : c.allowedMethods[i] = ToUpper(method)

isMethodAllowed(c, method) ==
    IF Len(c.allowedMethods) = 0 THEN FALSE
    ELSE IF ToUpper(method) = MethodOptions THEN TRUE
    ELSE \E i \in DOMAIN c.allowedMethods : c.allowedMethods[i] = ToUpper(method)

\* areHeadersAllowed passing as soon as one requested header is allowed
areHeadersAllowed_Any(c, reqHeaders) ==
    IF c.allowedHeadersAll \/ Len(reqHeaders) = 0 THEN TRUE
    ELSE \E j \in DOMAIN reqHeaders :
            \E i \in DOMAIN c.allowedHeaders :
                c.allowedHeaders[i] = CanonicalHeaderKey(reqHeaders[j])

areHeadersAllowed(c, reqHeaders) ==
    IF c.allowedHeadersAll \/ Len(reqHeaders) = 0 THEN TRUE
    ELSE \A j \in DOMAIN reqHeaders :
            \E i \in DOMAIN c.allowedHeaders :
                c.allowedHeaders[i] = CanonicalHeaderKey(reqHeaders[j])

\* setAllowOrigin answering "*" whenever all origins are allowed
setAllowOrigin_AlwaysStar(c, headers, origin) ==
    IF c.allowedOriginsAll
    THEN Set(headers, "Access-Control-Allow-Origin", sStar)
    ELSE Set(headers, "Access-Control-Allow-Origin", origin)

\* Access-Control-Allow-Origin as both paths set it
setAllowOrigin(c, headers, origin) ==
    IF c.allowedOriginsAll /\ ~c.allowCredentials
    THEN Set(headers, "Access-Control-Allow-Origin", sStar)
    ELSE Set(headers, "Access-Control-Allow-Origin", origin)

\* addPreflightVary without the entry for the requested headers
addPreflightVary_Two(headers) ==
    Add(Add(headers, "Vary", sOrigin), "Vary", sACRequestMethod)

\* the three Vary entries of the preflight path
addPreflightVary(headers) ==
    Add(Add(Add(headers, "Vary", sOrigin),
            "Vary", sACRequestMethod),
        "Vary", sACRequestHeaders)

\* handlePreflight answering the configured allow-list as
\* Access-Control-Allow-Methods
handlePreflight_AllowList(c, w, r) ==
    LET origin     == Get(r.Header, "Origin")
        reqMethod  == Get(r.Header, "Access-Control-Request-Method")
        reqHeaders == parseHeaderList(Get(r.Header, "Access-Control-Request-Headers"))
        h0 == addPreflightVary(w.Header)
        h1 == setAllowOrigin(c, h0, origin)
        h2 == Set(h1, "Access-Control-Allow-Methods", Join(c.allowedMethods, sCommaSpace))
        h3 == IF Len(reqHeaders) > 0
              THEN Set(h2, "Access-Control-Allow-Headers", Join(reqHeaders, sCommaSpace))
              ELSE h2
        h4 == IF c.allowCredentials
              THEN Set(h3, "Access-Control-Allow-Credentials", sTrue)
              ELSE h3
        h5 == IF c.maxAge > 0
              THEN Set(h4, "Access-Control-Max-Age", Itoa(c.maxAge))
              ELSE h4
    IN  [w EXCEPT !.Header =
            IF r.Method # MethodOptions THEN w.Header
            ELSE IF origin = sEmpty THEN h0
            ELSE IF ~isOriginAllowed(c, origin) THEN h0
            ELSE IF ~isMethodAllowed(c, reqMethod) THEN h0
            ELSE IF ~areHeadersAllowed(c, reqHeaders) THEN h0
            ELSE h5]

\* handlePreflight: the response w after it has run on request r
handlePreflight(c, w, r) ==
    LET origin     == Get(r.Header, "Origin")
        reqMethod  == Get(r.Header, "Access-Control-Request-Method")
        reqHeaders == parseHeaderList(Get(r.Header, "Access-Control-Request-Headers"))
        h0 == addPreflightVary(w.Header)
        h1 == setAllowOrigin(c, h0, origin)
        h2 == Set(h1, "Access-Control-Allow-Methods", ToUpper(reqMethod))
        h3 == IF Len(reqHeaders) > 0
              THEN Set(h2, "Access-Control-Allow-Headers", Join(reqHeaders, sCommaSpace))
              ELSE h2
        h4 == IF c.allowCredentials
              THEN Set(h3, "Access-Control-Allow-Credentials", sTrue)
              ELSE h3
        h5 == IF c.maxAge > 0
              THEN Set(h4, "Access-Control-Max-Age", Itoa(c.maxAge))
              ELSE h4
    IN  [w EXCEPT !.Header =
            IF r.Method # MethodOptions THEN w.Header
            ELSE IF origin = sEmpty THEN h0
            ELSE IF ~isOriginAllowed(c, origin) THEN h0
            ELSE IF ~isMethodAllowed(c, reqMethod) THEN h0
            ELSE IF ~areHeadersAllowed(c, reqHeaders) THEN h0
            ELSE h5]

\* handleActualRequest without the early return for OPTIONS
handleActualRequest_NoOptionsReturn(c, w, r) ==
    LET origin == Get(r.Header, "Origin")
        h0 == Add(w.Header, "Vary", sOrigin)
        h1 == setAllowOrigin(c, h0, origin)
        h2 == IF Len(c.exposedHeaders) > 0
              THEN Set(h1, "Access-Control-Expose-Headers",
                       Join(c.exposedHeaders, sCommaSpace))
              ELSE h1
        h3 == IF c.allowCredentials
              THEN Set(h2, "Access-Control-Allow-Credentials", sTrue)
              ELSE h2
    IN  [w EXCEPT !.Header =
            IF origin = sEmpty THEN h0
            ELSE IF ~isOriginAllowed(c, origin) THEN h0
            ELSE IF ~isMethodAllowed(c, r.Method) THEN h0
            ELSE h3]

\* handleActualRequest checking the requested method, not the request's own
handleActualRequest_RequestedMethod(c, w, r) ==
    LET origin == Get(r.Header, "Origin")
        h0 == Add(w.Header, "Vary", sOrigin)
        h1 == setAllowOrigin(c, h0, origin)
        h2 == IF Len(c.exposedHeaders) > 0
              THEN Set(h1, "Access-Control-Expose-Headers",
                       Join(c.exposedHeaders, sCommaSpace))
              ELSE h1
        h3 == IF c.allowCredentials
              THEN Set(h2, "Access-Control-Allow-Credentials", sTrue)
              ELSE h2
    IN  [w EXCEPT !.Header =
            IF r.Method = MethodOptions THEN w.Header
            ELSE IF origin = sEmpty THEN h0
            ELSE IF ~isOriginAllowed(c, origin) THEN h0
            ELSE IF ~isMethodAllowed(c, Get(r.Header, "Access-Control-Request-Method"))
                 THEN h0
            ELSE h3]

\* handleActualRequest: the response w after it has run on request r
handleActualRequest(c, w, r) ==
    LET origin == Get(r.Header, "Origin")
        h0 == Add(w.Header, "Vary", sOrigin)
        h1 == setAllowOrigin(c, h0, origin)
        h2 == IF Len(c.exposedHeaders) > 0
              THEN Set(h1, "Access-Control-Expose-Headers",
                       Join(c.exposedHeaders, sCommaSpace))
              ELSE h1
        h3 == IF c.allowCredentials
              THEN Set(h2, "Access-Control-Allow-Credentials", sTrue)
              ELSE h2
    IN  [w EXCEPT !.Header =
            IF r.Method = MethodOptions THEN w.Header
            ELSE IF origin = sEmpty THEN h0
            ELSE IF ~isOriginAllowed(c, origin) THEN h0
            ELSE IF ~isMethodAllowed(c, r.Method) THEN h0
            ELSE h3]

\* ------------------------------------------------------------------
\* The handler adapters
\* ------------------------------------------------------------------

\* A response, httptest.NewRecorder(): the header set, the status code (200
\* from the start), whether a status was written, the body and, for each
\* invocation of the downstream handler, the header set the handler was
\* handed and whether the status was written by then.
NewRecorder ==
    [Header      |-> EmptyHeader,
     Code        |-> StatusOK,
     wroteHeader |-> FALSE,
     Body        |-> <<>>,
     Calls       |-> <<>>]

\* ResponseRecorder.WriteHeader: the first status code written stands
WriteHeader(w, code) ==
    IF w.wroteHeader THEN w
    ELSE [w EXCEPT !.Code = code, !.wroteHeader = TRUE]

\* ResponseRecorder.Write: the status 200 is written if none was, then the
\* bytes are added to the body
Write(w, buf) == [WriteHeader(w, StatusOK) EXCEPT !.Body = @ \o buf]

\* h.ServeHTTP(w, r) / next(w, r): the downstream handler, testHandler, is
\* handed w as it stands and writes "hello"
next(w) ==
    Write([w EXCEPT !.Calls =
              Append(@, [Header |-> w.Header, wroteHeader |-> w.wroteHeader])],
          sHello)

Handler(c, w, r) ==
    IF r.Method = MethodOptions /\ Get(r.Header, "Access-Control-Request-Method") # sEmpty
    THEN IF c.optionPassthrough
         THEN next(handlePreflight(c, w, r))
         ELSE WriteHeader(handlePreflight(c, w, r), StatusOK)
    ELSE next(handleActualRequest(c, w, r))

\* HandlerFunc routing every OPTIONS request to the preflight path
HandlerFunc_ByMethod(c, w, r) ==
    IF r.Method = MethodOptions
    THEN handlePreflight(c, w, r)
    ELSE handleActualRequest(c, w, r)

HandlerFunc(c, w, r) ==
    IF r.Method = MethodOptions /\ Get(r.Header, "Access-Control-Request-Method") # sEmpty
    THEN handlePreflight(c, w, r)
    ELSE handleActualRequest(c, w, r)

\* ServeHTTP running the continuation before the engine on the actual path
ServeHTTP_NextFirst(c, w, r) ==
    IF r.Method = MethodOptions /\ Get(r.Header, "Access-Control-Request-Method") # sEmpty
    THEN IF c.optionPassthrough
         THEN next(handlePreflight(c, w, r))
         ELSE WriteHeader(handlePreflight(c, w, r), StatusOK)
    ELSE handleActualRequest(c, next(w), r)

ServeHTTP(c, w, r) ==
    IF r.Method = MethodOptions /\ Get(r.Header, "Access-Control-Request-Method") # sEmpty
    THEN IF c.optionPassthrough
         THEN next(handlePreflight(c, w, r))
         ELSE WriteHeader(handlePreflight(c, w, r), StatusOK)
    ELSE next(handleActualRequest(c, w, r))

\* ------------------------------------------------------------------
\* Inputs
\* ------------------------------------------------------------------

\* how many of the Origin values and of the Access-Control-Request-Headers
\* values below the requests draw from
NumOrigins == 5

NumHeaderLists == 5

Min(a, b) == IF a < b THEN a ELSE b

FirstN(pool, n) == {pool[i] : i \in 1..Min(n, Len(pool))}

\* the values stored under a request header: none, or one
OriginValues ==
    FirstN(<< <<>>, <<oFoo>>, <<oFooUpper>>, <<oXBar>>, <<oEvil>>, <<oFooBar>> >>,
           NumOrigins)

RequestHeadersValues ==
    FirstN(<< <<>>, <<hReqOne>>, <<hReqTwo>>, <<hReqBad>>, <<hReqBlank>>,
              <<hReqDup>>, <<hReqOrigin>> >>,
           NumHeaderLists)

Methods == {sGET, sPUT, MethodOptions, sOptionsLower}

\* http.NewRequest followed by req.Header.Add for each request header
\* net/http validMethod: a method is a token, not empty
validMethod(method) ==
    Len(method) > 0 /\ \A i \in DOMAIN method : IsTokenByte(method[i])

\* the nil request http.NewRequest returns with an error
NilRequest == [err |-> "net/http: invalid method"]

\* http.NewRequest and the req.Header.Add calls: the empty method stands
\* for GET, and a method that is no token gives no request
NewRequest(method, origin, acrm, acrh) ==
    LET m == IF method = sEmpty THEN sGET ELSE method
    IN  IF ~validMethod(m) THEN NilRequest
        ELSE [Method |-> m,
              Header |-> [k \in RequestHeaderNames |->
                             IF k = "Origin" THEN origin
                             ELSE IF k = "Access-Control-Request-Method" THEN acrm
                             ELSE acrh]]

\* OPTIONS requests that name a requested method carry every combination of
\* the three headers; OPTIONS requests that name none carry an Origin and at
\* most one requested header; requests of the other methods carry an Origin
\* and at most a requested method
Requests ==
    {NewRequest(MethodOptions, o, m, h) :
        o \in OriginValues, m \in { <<sGET>>, <<sPut>>, <<sPATCH>> },
        h \in RequestHeadersValues}
    \cup
    {NewRequest(MethodOptions, o, m, h) :
        o \in OriginValues, m \in { <<>>, <<sEmpty>> }, h \in { <<>>, <<hReqOne>> }}
    \cup
    {NewRequest(meth, o, m, <<>>) :
        meth \in Methods \ {MethodOptions}, o \in OriginValues, m \in { <<>>, <<sPATCH>> }}

\* MaxAge acts on the preflight path only and ExposedHeaders on the
\* actual-request path only: the two are varied together
AgeAndExposed ==
    {[MaxAge |-> 0, ExposedHeaders |-> <<>>],
     [MaxAge |-> 10, ExposedHeaders |-> <<hXH1, hXh2Lower>>]}

OptionsSet ==
    {[AllowedOrigins     |-> o,
      AllowOriginFunc    |-> f,
      AllowedMethods     |-> m,
      AllowedHeaders     |-> h,
      ExposedHeaders     |-> x.ExposedHeaders,
      MaxAge             |-> x.MaxAge,
      AllowCredentials   |-> cr,
      OptionsPassthrough |-> pt] :
        o \in { <<>>, <<sStar>>, <<oFooMixed>>, <<oWildBar>>, <<oFooMixed, sStar>> },
        f \in OriginFuncs,
        m \in { <<>>, <<sPut, sDELETE>> },
        h \in { <<>>, <<hXH1, hXh2Lower>>, <<sStar>> },
        x \in AgeAndExposed,
        cr \in BOOLEAN,
        pt \in BOOLEAN}

\* Options{}: the Options of Default()
NoOptions ==
    [AllowedOrigins     |-> <<>>,
     AllowOriginFunc    |-> NilFunc,
     AllowedMethods     |-> <<>>,
     AllowedHeaders     |-> <<>>,
     ExposedHeaders     |-> <<>>,
     MaxAge             |-> 0,
     AllowCredentials   |-> FALSE,
     OptionsPassthrough |-> FALSE]

\* the Options of AllowAll()
AllowAllOptions ==
    [NoOptions EXCEPT
        !.AllowedOrigins   = <<sStar>>,
        !.AllowedMethods   = <<sHEAD, sGET, sPOST, sPUT, sPATCH, sDELETE>>,
        !.AllowedHeaders   = <<sStar>>,
        !.AllowCredentials = TRUE]

\* further Options: the presets, a negative MaxAge, and wildcard origins
\* whose prefix and suffix overlap in a candidate or that hold two '*'
EdgeOptions ==
    {NoOptions, AllowAllOptions}
    \cup {[NoOptions EXCEPT !.MaxAge = -1, !.AllowCredentials = cr] : cr \in BOOLEAN}
    \cup {[NoOptions EXCEPT !.AllowedOrigins = o] :
            o \in { <<oWildShort>>, <<oWildTwo>>, <<oWildTwo, oWildBar>>,
                    <<oEAcuteUpper>> }}

\* further requests: the origins of the wildcard tests, the Origin "*", an
\* origin and a requested method with a letter outside ASCII
EdgeRequests ==
    {NewRequest(sGET, <<o>>, <<>>, <<>>) :
        o \in {oFooBarCom, oFooBazCom, sStar, oEAcuteLower}}
    \cup {NewRequest(MethodOptions, <<oFoo>>, <<sOptionLongS>>, <<>>)}
    \cup {NewRequest(MethodOptions, <<sStar>>, <<sGET>>, <<>>)}

\* ------------------------------------------------------------------
\* The state machine
\* ------------------------------------------------------------------

Adapters == {"Handler", "HandlerFunc", "ServeHTTP"}

\* how many goroutines serve requests through the one engine at a time
NumGoroutines == 2

Goroutines == 1..NumGoroutines

\* a goroutine that runs no adapter call
IdleCall ==
    [pc        |-> "idle",
     adapter   |-> "Handler",
     r         |-> NewRequest(sGET, <<>>, <<>>, <<>>),
     w         |-> NewRecorder,
     preflight |-> FALSE]

VARIABLES
    options,   \* the Options the engine was built from
    c,         \* the engine: the Cors value New returned
    req,       \* the request being served: <<>> before the first, else <<r>>
    res,       \* res[a]: the recorder adapter a serves the request into
    done,      \* the adapters that have served the request
    probe,     \* the last direct call of isMethodAllowed: <<>> or <<call>>
    calls      \* calls[g]: the adapter call goroutine g is running

vars == <<options, c, req, res, done, probe, calls>>

Init ==
    /\ options \in OptionsSet \cup EdgeOptions
    /\ c = New(options)
    /\ req = <<>>
    /\ res = [a \in Adapters |-> NewRecorder]
    /\ done = {}
    /\ probe = <<>>
    /\ calls = [g \in Goroutines |-> IdleCall]

\* a new request arrives, with a fresh recorder for each adapter
Request ==
    /\ req = <<>>
    /\ \E r \in Requests \cup EdgeRequests : r # NilRequest /\ req' = <<r>>
    /\ res' = [a \in Adapters |-> NewRecorder]
    /\ done' = {}
    /\ probe' = <<>>
    /\ UNCHANGED <<options, c, calls>>

CallHandler ==
    /\ req # <<>>
    /\ "Handler" \notin done
    /\ res' = [res EXCEPT !["Handler"] = Handler(c, @, req[1])]
    /\ done' = done \cup {"Handler"}
    /\ UNCHANGED <<options, c, req, probe, calls>>

CallHandlerFunc ==
    /\ req # <<>>
    /\ "HandlerFunc" \notin done
    /\ res' = [res EXCEPT !["HandlerFunc"] = HandlerFunc(c, @, req[1])]
    /\ done' = done \cup {"HandlerFunc"}
    /\ UNCHANGED <<options, c, req, probe, calls>>

CallServeHTTP ==
    /\ req # <<>>
    /\ "ServeHTTP" \notin done
    /\ res' = [res EXCEPT !["ServeHTTP"] = ServeHTTP(c, @, req[1])]
    /\ done' = done \cup {"ServeHTTP"}
    /\ UNCHANGED <<options, c, req, probe, calls>>

\* the three adapters have served the request: it and its recorders are
\* dropped, the engine stays
EndRequest ==
    /\ req # <<>>
    /\ done = Adapters
    /\ req' = <<>>
    /\ res' = [a \in Adapters |-> NewRecorder]
    /\ done' = {}
    /\ UNCHANGED <<options, c, probe, calls>>

\* isMethodAllowed called on the engine directly, between requests
CallIsMethodAllowed ==
    /\ req = <<>>
    /\ \E m \in Methods \cup {sPut, sGetLower, sPOST, sHEAD, sPATCH, sDELETE,
                           sOptionLongS} :
          probe' = << [method |-> m, allowed |-> isMethodAllowed(c, m)] >>
    /\ UNCHANGED <<options, c, req, res, done, calls>>

Next ==
    \/ Request
    \/ CallHandler
    \/ CallHandlerFunc
    \/ CallServeHTTP
    \/ EndRequest
    \/ CallIsMethodAllowed

Spec == Init /\ [][Next]_vars

\* ------------------------------------------------------------------
\* Concurrent calls: each goroutine runs one adapter call on its own
\* request and recorder, a statement group at a time, all on the one engine
\* ------------------------------------------------------------------

ConcOptions ==
    {NoOptions,
     AllowAllOptions,
     [NoOptions EXCEPT !.AllowedOrigins = <<oFooMixed>>,
                       !.AllowedHeaders = <<hXH1, hXh2Lower>>,
                       !.ExposedHeaders = <<hXH1, hXh2Lower>>,
                       !.MaxAge = 10,
                       !.OptionsPassthrough = TRUE],
     [NoOptions EXCEPT !.AllowedOrigins = <<oWildBar>>,
                       !.AllowOriginFunc = "prefixFoo",
                       !.AllowCredentials = TRUE]}

ConcRequests ==
    {NewRequest(sGET, <<oFoo>>, <<>>, <<>>),
     NewRequest(sPUT, <<oEvil>>, <<>>, <<>>),
     NewRequest(MethodOptions, <<oFooUpper>>, <<sGET>>, <<hReqTwo>>),
     NewRequest(MethodOptions, <<oFoo>>, <<>>, <<>>)}

ConcInit ==
    /\ options \in ConcOptions
    /\ c = New(options)
    /\ req = <<>>
    /\ res = [a \in Adapters |-> NewRecorder]
    /\ done = {}
    /\ probe = <<>>
    /\ calls = [g \in Goroutines |-> IdleCall]

\* goroutine g enters an adapter with a request and a fresh recorder, and
\* the adapter classifies the request
Start(g) ==
    /\ calls[g].pc = "idle"
    /\ \E a \in Adapters, r \in ConcRequests \ {NilRequest} :
          LET pre == /\ r.Method = MethodOptions
                     /\ Get(r.Header, "Access-Control-Request-Method") # sEmpty
          IN  calls' = [calls EXCEPT ![g] =
                          [pc        |-> IF pre THEN "preflight" ELSE "actual",
                           adapter   |-> a,
                           r         |-> r,
                           w         |-> NewRecorder,
                           preflight |-> pre]]
    /\ UNCHANGED <<options, c, req, res, done, probe>>

\* handlePreflight up to the Vary entries
PreflightVary(g) ==
    /\ calls[g].pc = "preflight"
    /\ calls' = [calls EXCEPT ![g] =
          IF calls[g].r.Method # MethodOptions
          THEN [@ EXCEPT !.pc = "finish"]
          ELSE [@ EXCEPT !.pc = "preflightChecks",
                         !.w.Header = addPreflightVary(@)]]
    /\ UNCHANGED <<options, c, req, res, done, probe>>

\* handlePreflight: the checks of origin, method and headers
PreflightChecks(g) ==
    /\ calls[g].pc = "preflightChecks"
    /\ LET r == calls[g].r
           origin == Get(r.Header, "Origin")
           pass ==
               /\ origin # sEmpty
               /\ isOriginAllowed(c, origin)
               /\ isMethodAllowed(c, Get(r.Header, "Access-Control-Request-Method"))
               /\ areHeadersAllowed(c,
                      parseHeaderList(Get(r.Header, "Access-Control-Request-Headers")))
       IN  calls' = [calls EXCEPT ![g].pc = IF pass THEN "preflightSet" ELSE "finish"]
    /\ UNCHANGED <<options, c, req, res, done, probe>>

\* handlePreflight: the Access-Control-* headers of a request that passed
PreflightSet(g) ==
    /\ calls[g].pc = "preflightSet"
    /\ LET r == calls[g].r
           reqMethod  == Get(r.Header, "Access-Control-Request-Method")
           reqHeaders == parseHeaderList(Get(r.Header, "Access-Control-Request-Headers"))
           h1 == setAllowOrigin(c, calls[g].w.Header, Get(r.Header, "Origin"))
           h2 == Set(h1, "Access-Control-Allow-Methods", ToUpper(reqMethod))
           h3 == IF Len(reqHeaders) > 0
                 THEN Set(h2, "Access-Control-Allow-Headers",
                          Join(reqHeaders, sCommaSpace))
                 ELSE h2
           h4 == IF c.allowCredentials
                 THEN Set(h3, "Access-Control-Allow-Credentials", sTrue)
                 ELSE h3
           h5 == IF c.maxAge > 0
                 THEN Set(h4, "Access-Control-Max-Age", Itoa(c.maxAge))
                 ELSE h4
       IN  calls' = [calls EXCEPT ![g].pc = "finish", ![g].w.Header = h5]
    /\ UNCHANGED <<options, c, req, res, done, probe>>

\* handleActualRequest up to the Vary entry
ActualVary(g) ==
    /\ calls[g].pc = "actual"
    /\ calls' = [calls EXCEPT ![g] =
          IF calls[g].r.Method = MethodOptions
          THEN [@ EXCEPT !.pc = "finish"]
          ELSE [@ EXCEPT !.pc = "actualChecks",
                         !.w.Header = Add(@, "Vary", sOrigin)]]
    /\ UNCHANGED <<options, c, req, res, done, probe>>

\* handleActualRequest: the checks of origin and method
ActualChecks(g) ==
    /\ calls[g].pc = "actualChecks"
    /\ LET r == calls[g].r
           origin == Get(r.Header, "Origin")
           pass ==
               /\ origin # sEmpty
               /\ isOriginAllowed(c, origin)
               /\ isMethodAllowed(c, r.Method)
       IN  calls' = [calls EXCEPT ![g].pc = IF pass THEN "actualSet" ELSE "finish"]
    /\ UNCHANGED <<options, c, req, res, done, probe>>

\* ActualSet that also stores the admitted origin in the engine
ActualSet_Caching(g) ==
    /\ calls[g].pc = "actualSet"
    /\ calls' = [calls EXCEPT
          ![g].pc = "finish",
          ![g].w.Header =
              setAllowOrigin(c, calls[g].w.Header, Get(calls[g].r.Header, "Origin"))]
    /\ c' = [c EXCEPT !.allowedOrigins =
                Append(@, ToLower(Get(calls[g].r.Header, "Origin")))]
    /\ UNCHANGED <<options, req, res, done, probe>>

\* handleActualRequest: the Access-Control-* headers of a request that passed
ActualSet(g) ==
    /\ calls[g].pc = "actualSet"
    /\ LET h1 == setAllowOrigin(c, calls[g].w.Header, Get(calls[g].r.Header, "Origin"))
           h2 == IF Len(c.exposedHeaders) > 0
                 THEN Set(h1, "Access-Control-Expose-Headers",
                          Join(c.exposedHeaders, sCommaSpace))
                 ELSE h1
           h3 == IF c.allowCredentials
                 THEN Set(h2, "Access-Control-Allow-Credentials", sTrue)
                 ELSE h2
       IN  calls' = [calls EXCEPT ![g].pc = "finish", ![g].w.Header = h3]
    /\ UNCHANGED <<options, c, req, res, done, probe>>

\* the adapter after the engine: Handler and ServeHTTP write the status of
\* a preflight request without passthrough and run the downstream handler
\* otherwise; HandlerFunc returns
Finish(g) ==
    /\ calls[g].pc = "finish"
    /\ calls' = [calls EXCEPT
          ![g].pc = "done",
          ![g].w = IF calls[g].adapter = "HandlerFunc" THEN @
                   ELSE IF calls[g].preflight /\ ~c.optionPassthrough
                   THEN WriteHeader(@, StatusOK)
                   ELSE next(@)]
    /\ UNCHANGED <<options, c, req, res, done, probe>>

\* the call has returned and its recorder been read: g is free again
Return(g) ==
    /\ calls[g].pc = "done"
    /\ calls' = [calls EXCEPT ![g] = IdleCall]
    /\ UNCHANGED <<options, c, req, res, done, probe>>

ConcNext ==
    \E g \in Goroutines :
        \/ Start(g)
        \/ PreflightVary(g)
        \/ PreflightChecks(g)
        \/ PreflightSet(g)
        \/ ActualVary(g)
        \/ ActualChecks(g)
        \/ ActualSet(g)
        \/ Finish(g)
        \/ Return(g)

ConcSpec == ConcInit /\ [][ConcNext]_vars

\* ------------------------------------------------------------------
\* Properties
\* ------------------------------------------------------------------

\* the request being served
R == req[1]

Origin == Get(R.Header, "Origin")

RequestMethod == Get(R.Header, "Access-Control-Request-Method")

RequestHeaders == parseHeaderList(Get(R.Header, "Access-Control-Request-Headers"))

\* the request is classified as preflight
IsPreflight ==
    R.Method = MethodOptions /\ Get(R.Header, "Access-Control-Request-Method") # sEmpty

AccessControlNames == ResponseHeaderNames \ {"Vary"}

NoAccessControl(h) == \A k \in AccessControlNames : h[k] = <<>>

\* every requested header is allowed, as the claims state it
HeadersAdmissible ==
    \/ c.allowedHeadersAll
    \/ \A j \in DOMAIN RequestHeaders :
          CanonicalHeaderKey(RequestHeaders[j]) \in Range(c.allowedHeaders)

\* the request passes every check of its path
Succeeds ==
    /\ Origin # sEmpty
    /\ isOriginAllowed(c, Origin)
    /\ IF IsPreflight
       THEN isMethodAllowed(c, RequestMethod) /\ HeadersAdmissible
       ELSE R.Method # MethodOptions /\ isMethodAllowed(c, R.Method)

\* adapter a applied to a fresh recorder by engine e
Serve(a, e, r) ==
    IF a = "Handler" THEN Handler(e, NewRecorder, r)
    ELSE IF a = "HandlerFunc" THEN HandlerFunc(e, NewRecorder, r)
    ELSE ServeHTTP(e, NewRecorder, r)

\* C1: the adapters that have served the request left the same response
\* headers (Vary entries in the same order, the same Access-Control-*
\* headers) in their recorders, each started from the empty header set.
C1_AdaptersAgree ==
    \A a \in done : \A b \in done : res[a].Header = res[b].Header

C1_Witness ==
    /\ done = Adapters
    /\ IsPreflight
    /\ res["HandlerFunc"].Header["Access-Control-Allow-Origin"] # <<>>
    /\ res["Handler"].Header["Vary"] = <<sOrigin, sACRequestMethod, sACRequestHeaders>>

\* C2: a request that succeeds against a policy allowing all origins gets
\* Access-Control-Allow-Origin: * without credentials, and with credentials
\* the request's Origin echoed plus Access-Control-Allow-Credentials: true.
C2_AllowAllOrigins ==
    \A a \in done :
        (c.allowedOriginsAll /\ Succeeds) =>
            IF c.allowCredentials
            THEN /\ res[a].Header["Access-Control-Allow-Origin"] = <<Origin>>
                 /\ res[a].Header["Access-Control-Allow-Credentials"] = <<sTrue>>
            ELSE res[a].Header["Access-Control-Allow-Origin"] = <<sStar>>

C2_Witness ==
    /\ done = Adapters
    /\ c.allowedOriginsAll
    /\ c.allowCredentials
    /\ Succeeds
    /\ Origin = oFoo
    /\ res["Handler"].Header["Access-Control-Allow-Origin"] = <<oFoo>>

\* C3: a preflight request gets exactly the Vary entries Origin,
\* Access-Control-Request-Method, Access-Control-Request-Headers in that
\* order, whatever the outcome, and when the chain aborts (empty origin,
\* origin, method or a header not allowed) no Access-Control-* header.
C3_PreflightVary ==
    \A a \in done :
        IsPreflight =>
            /\ res[a].Header["Vary"] = <<sOrigin, sACRequestMethod, sACRequestHeaders>>
            /\ (\/ Origin = sEmpty
                \/ ~isOriginAllowed(c, Origin)
                \/ ~isMethodAllowed(c, RequestMethod)
                \/ ~HeadersAdmissible) => NoAccessControl(res[a].Header)

C3_Witness ==
    /\ done = Adapters
    /\ IsPreflight
    /\ Origin # sEmpty
    /\ isOriginAllowed(c, Origin)
    /\ ~isMethodAllowed(c, RequestMethod)
    /\ NoAccessControl(res["ServeHTTP"].Header)
    /\ Len(res["ServeHTTP"].Header["Vary"]) = 3

\* C4: on the preflight path the header check is all or nothing: with
\* allowedHeadersAll false and one parsed requested header outside
\* allowedHeaders no Access-Control-* header is emitted, though others are
\* allowed; with every requested header allowed, allowedHeadersAll true or an
\* empty list the check passes, so a request whose origin and method are
\* admitted gets its Access-Control-Allow-Origin.
C4_HeadersAllOrNothing ==
    \A a \in done :
        IsPreflight =>
            /\ ~HeadersAdmissible => NoAccessControl(res[a].Header)
            /\ (/\ HeadersAdmissible
                /\ Origin # sEmpty
                /\ isOriginAllowed(c, Origin)
                /\ isMethodAllowed(c, RequestMethod))
                   => res[a].Header["Access-Control-Allow-Origin"] # <<>>

C4_Witness ==
    /\ done = Adapters
    /\ IsPreflight
    /\ Origin # sEmpty
    /\ isOriginAllowed(c, Origin)
    /\ isMethodAllowed(c, RequestMethod)
    /\ ~c.allowedHeadersAll
    /\ \E j \in DOMAIN RequestHeaders : RequestHeaders[j] \in Range(c.allowedHeaders)
    /\ \E j \in DOMAIN RequestHeaders : RequestHeaders[j] \notin Range(c.allowedHeaders)
    /\ NoAccessControl(res["Handler"].Header)

\* C5: an OPTIONS request whose Access-Control-Request-Method is absent or
\* empty leaves the response header set empty through every adapter.
C5_NonPreflightOptions ==
    \A a \in done :
        (R.Method = MethodOptions /\ RequestMethod = sEmpty) =>
            res[a].Header = EmptyHeader

C5_Witness ==
    /\ done = Adapters
    /\ R.Method = MethodOptions
    /\ R.Header["Access-Control-Request-Method"] = <<sEmpty>>
    /\ Origin # sEmpty
    /\ isOriginAllowed(c, Origin)
    /\ res["Handler"].Header = EmptyHeader
    /\ res["HandlerFunc"].Header = EmptyHeader
    /\ res["ServeHTTP"].Header = EmptyHeader

\* C6: for a preflight request with optionPassthrough false, each of the
\* three adapters writes status 200, which ends the response with no body,
\* and invokes no downstream handler.
C6_PreflightTerminates ==
    \A a \in done :
        (IsPreflight /\ ~c.optionPassthrough) =>
            /\ res[a].wroteHeader
            /\ res[a].Code = StatusOK
            /\ res[a].Body = <<>>
            /\ res[a].Calls = <<>>

\* C7: through Handler and ServeHTTP the downstream handler runs exactly
\* once, handed the headers as the engine left them, for every actual
\* request and for every preflight request under optionPassthrough; it does
\* not run for a preflight request without optionPassthrough; and on the
\* actual-request path the adapter writes no status code: the downstream
\* handler is handed a response whose status is unwritten, and the status
\* and body of the response are the ones that handler wrote.
C7_Downstream ==
    \A a \in done \cap {"Handler", "ServeHTTP"} :
        IF IsPreflight /\ ~c.optionPassthrough
        THEN res[a].Calls = <<>> /\ res[a].Body = <<>>
        ELSE /\ Len(res[a].Calls) = 1
             /\ res[a].Calls[1].Header = res[a].Header
             /\ res[a].Body = sHello
             /\ ~IsPreflight =>
                    /\ ~res[a].Calls[1].wroteHeader
                    /\ res[a].Code = StatusOK

C7_Witness ==
    /\ done = Adapters
    /\ IsPreflight
    /\ c.optionPassthrough
    /\ Succeeds
    /\ Len(res["ServeHTTP"].Calls) = 1
    /\ res["ServeHTTP"].Calls[1].Header["Access-Control-Allow-Origin"] # <<>>
    /\ Len(res["Handler"].Calls) = 1
    /\ ~res["Handler"].Calls[1].wroteHeader
    /\ res["Handler"].Body = sHello

\* C8: with an origin predicate configured the AllowedOrigins list has no
\* effect: the response headers are those of the engine built from the same
\* Options with an empty AllowedOrigins list.
C8_OriginsListIgnored ==
    \A a \in done :
        options.AllowOriginFunc # NilFunc =>
            res[a].Header =
                Serve(a, New([options EXCEPT !.AllowedOrigins = <<>>]), R).Header

\* C9 as stated: built from an empty Options.AllowedMethods, isMethodAllowed
\* is true for OPTIONS (any letter case) and false for every other method.
C9_OnlyOptionsAllowed ==
    \A i \in DOMAIN probe :
        Len(options.AllowedMethods) = 0 =>
            (probe[i].allowed <=> ToUpper(probe[i].method) = MethodOptions)

\* C9: built from an empty Options.AllowedMethods the engine allows the
\* defaults GET, POST and HEAD: isMethodAllowed is true for a method whose
\* upper-cased form is OPTIONS, GET, POST or HEAD and false for every other.
C9_DefaultMethodsAllowed ==
    \A i \in DOMAIN probe :
        Len(options.AllowedMethods) = 0 =>
            (probe[i].allowed <=>
                ToUpper(probe[i].method) \in {MethodOptions, sGET, sPOST, sHEAD})

C9_Witness ==
    /\ Len(options.AllowedMethods) = 0
    /\ probe # <<>>
    /\ probe[1].method = sGetLower
    /\ probe[1].allowed

\* "option" with the long s, which strings.ToUpper turns into OPTIONS, is
\* allowed too
C9_WitnessLongS ==
    /\ Len(options.AllowedMethods) = 0
    /\ probe # <<>>
    /\ probe[1].method = sOptionLongS
    /\ probe[1].allowed

\* the Options hold a list of exact origins and no predicate
ExactOriginList ==
    /\ options.AllowOriginFunc = NilFunc
    /\ Len(options.AllowedOrigins) > 0
    /\ \A i \in DOMAIN options.AllowedOrigins :
          IndexByte(options.AllowedOrigins[i], "*") < 0

\* the request fails no check other than the origin's
PassesButOrigin ==
    /\ Origin # sEmpty
    /\ IF IsPreflight
       THEN isMethodAllowed(c, RequestMethod) /\ HeadersAdmissible
       ELSE R.Method # MethodOptions /\ isMethodAllowed(c, R.Method)

\* C10: with a list of exact origins and no predicate, the Origin is
\* admitted iff its lower-cased form is the lower-cased form of a configured
\* entry, and then Access-Control-Allow-Origin is the Origin as received.
C10_ExactOriginCase ==
    \A a \in done :
        (ExactOriginList /\ PassesButOrigin) =>
            IF \E i \in DOMAIN options.AllowedOrigins :
                  ToLower(options.AllowedOrigins[i]) = ToLower(Origin)
            THEN res[a].Header["Access-Control-Allow-Origin"] = <<Origin>>
            ELSE res[a].Header["Access-Control-Allow-Origin"] = <<>>

C10_Witness ==
    /\ done = Adapters
    /\ ExactOriginList
    /\ options.AllowedOrigins = <<oFooMixed>>
    /\ Origin = oFooUpper
    /\ res["Handler"].Header["Access-Control-Allow-Origin"] = <<oFooUpper>>

\* the case of C10 with a letter outside ASCII: the entry holds U+00C9, the
\* Origin U+00E9
C10_WitnessEAcute ==
    /\ done = Adapters
    /\ ExactOriginList
    /\ options.AllowedOrigins = <<oEAcuteUpper>>
    /\ Origin = oEAcuteLower
    /\ res["Handler"].Header["Access-Control-Allow-Origin"] = <<oEAcuteLower>>

\* C11: a preflight request that succeeds gets Access-Control-Allow-Methods
\* equal to the requested method upper-cased, alone; Access-Control-Allow-
\* Headers iff the parsed requested headers are not empty, then joined with
\* ", "; Access-Control-Max-Age iff maxAge > 0, then its decimal string;
\* Access-Control-Allow-Credentials: true iff allowCredentials; and no
\* Access-Control-Expose-Headers.
C11_PreflightHeaders ==
    \A a \in done :
        (IsPreflight /\ Succeeds) =>
            /\ res[a].Header["Access-Control-Allow-Methods"] = <<ToUpper(RequestMethod)>>
            /\ res[a].Header["Access-Control-Allow-Headers"] =
                  IF Len(RequestHeaders) > 0
                  THEN <<Join(RequestHeaders, sCommaSpace)>>
                  ELSE <<>>
            /\ res[a].Header["Access-Control-Max-Age"] =
                  IF c.maxAge > 0 THEN <<Itoa(c.maxAge)>> ELSE <<>>
            /\ res[a].Header["Access-Control-Allow-Credentials"] =
                  IF c.allowCredentials THEN <<sTrue>> ELSE <<>>
            /\ res[a].Header["Access-Control-Expose-Headers"] = <<>>

C11_Witness ==
    /\ done = Adapters
    /\ IsPreflight
    /\ Succeeds
    /\ Len(c.exposedHeaders) > 0
    /\ Len(c.allowedMethods) = 2
    /\ RequestMethod = sPut
    /\ res["Handler"].Header["Access-Control-Allow-Methods"] = <<sPUT>>
    /\ res["Handler"].Header["Access-Control-Allow-Headers"] = <<hReqTwo>>
    /\ res["Handler"].Header["Access-Control-Max-Age"] = <<sTen>>
    /\ res["Handler"].Header["Access-Control-Allow-Credentials"] = <<sTrue>>
    /\ res["Handler"].Header["Access-Control-Expose-Headers"] = <<>>

\* the case of C11 where the requested method is "option" with the long s,
\* which strings.ToUpper turns into OPTIONS
C11_WitnessLongS ==
    /\ done = Adapters
    /\ IsPreflight
    /\ Succeeds
    /\ RequestMethod = sOptionLongS
    /\ res["Handler"].Header["Access-Control-Allow-Methods"] = <<MethodOptions>>

\* the case of C11 where maxAge is negative
C11_WitnessNegativeAge ==
    /\ done = Adapters
    /\ IsPreflight
    /\ Succeeds
    /\ c.maxAge < 0
    /\ res["Handler"].Header["Access-Control-Max-Age"] = <<>>

\* the headers of the actual-request path, given whether the method passes
ActualRequestHeaders(a, methodPasses) ==
    LET h == res[a].Header
        ok == Origin # sEmpty /\ isOriginAllowed(c, Origin) /\ methodPasses
    IN  /\ h["Vary"] = <<sOrigin>>
        /\ h["Access-Control-Allow-Origin"] # <<>> <=> ok
        /\ h["Access-Control-Expose-Headers"] =
              IF ok /\ Len(c.exposedHeaders) > 0
              THEN <<Join(c.exposedHeaders, sCommaSpace)>>
              ELSE <<>>
        /\ h["Access-Control-Allow-Credentials"] =
              IF ok /\ c.allowCredentials THEN <<sTrue>> ELSE <<>>
        /\ h["Access-Control-Allow-Methods"] = <<>>
        /\ h["Access-Control-Allow-Headers"] = <<>>
        /\ h["Access-Control-Max-Age"] = <<>>

\* C12 as stated: a request whose method is not OPTIONS gets one Vary:
\* Origin, and Access-Control-Allow-Origin iff its Origin is not empty and
\* admissible and its own method is in allowedMethods; only then the
\* exposed headers and the credentials header; never Allow-Methods,
\* Allow-Headers or Max-Age.
C12_MethodInAllowList ==
    \A a \in done :
        R.Method # MethodOptions =>
            ActualRequestHeaders(a, R.Method \in Range(c.allowedMethods))

\* C12: the same, where the method passes iff, upper-cased, it is OPTIONS or
\* in allowedMethods (the rule of isMethodAllowed).
C12_ActualRequestHeaders ==
    \A a \in done :
        R.Method # MethodOptions =>
            ActualRequestHeaders(a,
                \/ ToUpper(R.Method) = MethodOptions
                \/ ToUpper(R.Method) \in Range(c.allowedMethods))

C12_Witness ==
    /\ done = Adapters
    /\ R.Method = sPUT
    /\ R.Header["Access-Control-Request-Method"] = <<sPATCH>>
    /\ Origin = oXBar
    /\ c.allowedMethods = <<sPUT, sDELETE>>
    /\ c.allowCredentials
    /\ res["ServeHTTP"].Header["Vary"] = <<sOrigin>>
    /\ res["ServeHTTP"].Header["Access-Control-Allow-Origin"] = <<oXBar>>
    /\ res["ServeHTTP"].Header["Access-Control-Expose-Headers"] = <<sExposedJoined>>
    /\ res["ServeHTTP"].Header["Access-Control-Allow-Credentials"] = <<sTrue>>

\* the case of C12 that the amendment is about: the method "options"
C12_WitnessLowerOptions ==
    /\ done = Adapters
    /\ R.Method = sOptionsLower
    /\ MethodOptions \notin Range(c.allowedMethods)
    /\ res["Handler"].Header["Access-Control-Allow-Origin"] # <<>>

\* C13: whatever calls run and however their steps interleave, the engine
\* is the policy New compiled, field for field, and a call that has
\* returned left in its recorder what the same adapter leaves for the same
\* request when it runs alone on a fresh recorder; a free goroutine's
\* recorder is untouched.
C13_EngineReadOnly ==
    /\ c = New(options)
    /\ \A g \in Goroutines :
          /\ calls[g].pc = "done" =>
                calls[g].w = Serve(calls[g].adapter, New(options), calls[g].r)
          /\ calls[g].pc = "idle" => calls[g] = IdleCall

\* two calls in flight at once, one returned with CORS headers while the
\* other is between its checks and its headers
C13_Witness ==
    \E g \in Goroutines : \E k \in Goroutines :
        /\ g # k
        /\ calls[g].pc = "done"
        /\ calls[g].w.Header["Access-Control-Allow-Origin"] # <<>>
        /\ calls[k].pc \in {"preflightSet", "actualSet"}
        /\ calls[k].r # calls[g].r

\* the origins list holds wildcard entries only and no predicate is set
WildcardOriginList ==
    /\ options.AllowOriginFunc = NilFunc
    /\ Len(options.AllowedOrigins) > 0
    /\ \A i \in DOMAIN options.AllowedOrigins :
          /\ options.AllowedOrigins[i] # sStar
          /\ \E k \in DOMAIN options.AllowedOrigins[i] :
                options.AllowedOrigins[i][k] = "*"

\* the text of entry e before and after its first '*', lower-cased
PatternOf(e) ==
    LET k == CHOOSE k \in DOMAIN e :
                /\ e[k] = "*"
                /\ \A j \in 1..(k - 1) : e[j] # "*"
    IN  [prefix |-> ToLower(SubSeq(e, 1, k - 1)),
         suffix |-> ToLower(SubSeq(e, k + 1, Len(e)))]

\* s is long enough for both parts of p, starts with the one and ends with
\* the other
Matches(p, s) ==
    /\ Len(s) >= Len(p.prefix) + Len(p.suffix)
    /\ SubSeq(s, 1, Len(p.prefix)) = p.prefix
    /\ SubSeq(s, Len(s) - Len(p.suffix) + 1, Len(s)) = p.suffix

\* C14: each entry of the origins list that holds a '*' and is not "*" is
\* compiled to the pair of its lower-cased text before and after its first
\* '*', and the lower-cased Origin matches a pair iff it is at least as long
\* as prefix plus suffix, starts with the prefix and ends with the suffix: a
\* request that passes the other checks gets Access-Control-Allow-Origin,
\* the Origin as received, iff a pair matches.
C14_WildcardOrigins ==
    WildcardOriginList =>
        /\ c.allowedWOrigins =
              [i \in DOMAIN options.AllowedOrigins |-> PatternOf(options.AllowedOrigins[i])]
        /\ c.allowedOrigins = <<>>
        /\ \A a \in done :
              PassesButOrigin =>
                  res[a].Header["Access-Control-Allow-Origin"] =
                      IF \E i \in DOMAIN options.AllowedOrigins :
                            Matches(PatternOf(options.AllowedOrigins[i]), ToLower(Origin))
                      THEN <<Origin>>
                      ELSE <<>>

\* "http://*.Bar.com" admits http://foo.bar.com
C14_Witness ==
    /\ done = Adapters
    /\ options.AllowOriginFunc = NilFunc
    /\ options.AllowedOrigins = <<oWildBar>>
    /\ PassesButOrigin
    /\ Origin = oFooBarCom
    /\ res["ServeHTTP"].Header["Access-Control-Allow-Origin"] = <<oFooBarCom>>

\* "http://*.Bar.com" rejects http://foo.baz.com
C14_WitnessRejected ==
    /\ done = Adapters
    /\ options.AllowOriginFunc = NilFunc
    /\ options.AllowedOrigins = <<oWildBar>>
    /\ PassesButOrigin
    /\ Origin = oFooBazCom
    /\ res["ServeHTTP"].Header["Access-Control-Allow-Origin"] = <<>>

\* "http://foo.com*.com" rejects http://foo.com, which starts with the
\* prefix and ends with the suffix but is shorter than the two together
C14_WitnessShort ==
    /\ done = Adapters
    /\ options.AllowedOrigins = <<oWildShort>>
    /\ PassesButOrigin
    /\ Origin = oFoo
    /\ HasPrefix(oFoo, c.allowedWOrigins[1].prefix)
    /\ HasSuffix(oFoo, c.allowedWOrigins[1].suffix)
    /\ res["ServeHTTP"].Header["Access-Control-Allow-Origin"] = <<>>

\* an entry with two '*' is split at the first
C14_WitnessTwoStars ==
    /\ done = Adapters
    /\ options.AllowedOrigins = <<oWildTwo, oWildBar>>
    /\ Len(c.allowedWOrigins[1].suffix) > 0
    /\ PassesButOrigin
    /\ Origin = oFooBarCom
    /\ res["ServeHTTP"].Header["Access-Control-Allow-Origin"] = <<oFooBarCom>>

\* C15: no response carries Access-Control-Allow-Origin: * together with
\* Access-Control-Allow-Credentials: true, and none carries
\* Access-Control-Allow-Origin: * for a request whose Origin the configured
\* predicate rejected.
C15_NoStarWithCredentials ==
    \A a \in done :
        /\ ~ /\ res[a].Header["Access-Control-Allow-Origin"] = <<sStar>>
             /\ res[a].Header["Access-Control-Allow-Credentials"] = <<sTrue>>
        /\ (/\ options.AllowOriginFunc # NilFunc
            /\ ~allowOriginFunc(options.AllowOriginFunc, Origin))
              => res[a].Header["Access-Control-Allow-Origin"] # <<sStar>>

=============================================================================
